---- MODULE Spec2Model ----
(***************************************************************************)
(* Composite Hilbert spaces of RL/space/product.py: ProductSpace,          *)
(* PowerSpace and their nested Vector element types.                       *)
(*                                                                         *)
(* Objects are records with a "type" field (the Python class).  Leaf       *)
(* (non-composite) spaces and their elements stand for the concrete        *)
(* HilbertSpace implementations the composites delegate to.  Leaf elements *)
(* live in a heap (their index is their identity, their val is mutable);   *)
(* a composite element is a record holding its space and its parts tuple.  *)
(***************************************************************************)
EXTENDS Integers, Sequences, FiniteSets, TLC

VARIABLES
    spaces,   \* the composite spaces constructed so far
    heap,     \* the leaf elements: heap[c] = [space, val]
    vecs,     \* the composite elements constructed so far
    last,     \* the last call: [op, self, args, res]
    calls     \* the sub-space calls the last call delegated to, in order

vars == <<spaces, heap, vecs, last, calls>>

(***************************************************************************)
(* Bounds of the model.                                                    *)
(***************************************************************************)
MaxDim == 2      \* longest tuple of sub-spaces given to a constructor
MaxSpaces == 2   \* composite spaces alive at once
MaxCells == 2    \* leaf elements alive at once
MaxVecs == 2     \* composite elements alive at once
MaxVal == 1      \* largest absolute value a leaf element holds

Min(a, b) == IF a <= b THEN a ELSE b

SeqsUpTo(S, n) == UNION {[1..k -> S] : k \in 0..n}

(***************************************************************************)
(* Call results: a returned value or a raised exception.                   *)
(***************************************************************************)
Ok(v) == [ok |-> TRUE, val |-> v, err |-> "none"]
Raise(e) == [ok |-> FALSE, val |-> <<>>, err |-> e]

NoneObj == [type |-> "NoneType"]

(***************************************************************************)
(* Leaf spaces: two distinct real spaces and one complex space.            *)
(***************************************************************************)
LeafSpace(n, f) == [type |-> "Leaf", name |-> n, field |-> f]
LeafSpaces == {LeafSpace("A", "Real"), LeafSpace("B", "Real"),
               LeafSpace("C", "Complex")}

LeafEquals(self, other) == other.type = "Leaf" /\ other = self

(***************************************************************************)
(* ProductSpace                                                            *)
(***************************************************************************)
\* ProductSpaceInit without the comparison of the fields
ProductSpaceInit_NoFieldCheck(sp) ==
    IF Len(sp) = 0 THEN Raise("TypeError")
    ELSE Ok([type |-> "ProductSpace", spaces |-> sp,
             _dimension |-> Len(sp), _field |-> sp[1].field])

ProductSpaceInit(sp) ==
    IF Len(sp) = 0 THEN Raise("TypeError")
    ELSE IF ~(\A i \in 1..Len(sp) : sp[1].field = sp[i].field)
    THEN Raise("TypeError")
    ELSE Ok([type |-> "ProductSpace", spaces |-> sp,
             _dimension |-> Len(sp), _field |-> sp[1].field])

ProductField(self) == self._field

ProductDimension(self) == self._dimension

\* zip() stops at the shorter of the two tuples
ProductEquals(self, other) ==
    /\ other.type = "ProductSpace"
    /\ \A i \in 1..Min(Len(self.spaces), Len(other.spaces)) :
           LeafEquals(self.spaces[i], other.spaces[i])

\* tuple indexing: 0-based, negative indices count from the end
ProductGetItem(self, index) ==
    LET n == Len(self.spaces) IN
    IF index < -n \/ index >= n THEN Raise("IndexError")
    ELSE Ok(self.spaces[(index % n) + 1])

ProductLen(self) == ProductDimension(self)

(***************************************************************************)
(* PowerSpace                                                              *)
(***************************************************************************)
PowerSpaceInit(underlying_space, dimension) ==
    IF dimension <= 0 THEN Raise("TypeError")
    ELSE Ok([type |-> "PowerSpace", underlying_space |-> underlying_space,
             _dimension |-> dimension])

PowerField(self) == self.underlying_space.field

PowerDimension(self) == self._dimension

PowerEquals(self, other) ==
    /\ other.type = "PowerSpace"
    /\ LeafEquals(self.underlying_space, other.underlying_space)
    /\ PowerDimension(self) = PowerDimension(other)

\* PowerGetItem refusing the negative indices
PowerGetItem_NoNegative(self, index) ==
    IF index < 0 \/ index >= PowerDimension(self)
    THEN Raise("IndexError")
    ELSE Ok(self.underlying_space)

PowerGetItem(self, index) ==
    IF index < -PowerDimension(self) \/ index >= PowerDimension(self)
    THEN Raise("IndexError")
    ELSE Ok(self.underlying_space)

PowerLen(self) == PowerDimension(self)

(***************************************************************************)
(* Leaf elements (HilbertSpace.Vector of a non-composite space) and the    *)
(* operations of the Space contract the composites delegate to.            *)
(***************************************************************************)
Cell(space, val) == [space |-> space, val |-> val]

\* an argument of makeVector: an existing leaf element or a raw payload
VectorArg(c) == [type |-> "Vector", cell |-> c]
RawArg(v) == [type |-> "int", val |-> v]
IsVector(a) == a.type = "Vector"

\* space.makeVector(arg), space.zero(), space.empty(): a new leaf element
LeafMakeVector(h, space, val) == Append(h, Cell(space, val))

LeafInnerImpl(h, xp, yp) == h[xp].val * h[yp].val

\* zp <- a*xp + b*yp, in place
LeafLinCombImpl(h, zp, a, xp, b, yp) ==
    [h EXCEPT ![zp].val = a * h[xp].val + b * h[yp].val]

SubCall(space, op, args) == [space |-> space, op |-> op, args |-> args]

\* sum(): the terms are added left to right, starting from 0
RECURSIVE SumFrom(_, _, _)
SumFrom(acc, terms, i) ==
    IF i > Len(terms) THEN acc ELSE SumFrom(acc + terms[i], terms, i + 1)
Sum(terms) == SumFrom(0, terms, 1)

\* the result of a constructor: what it returns or raises, and the heap after
Built(res, h) == [res |-> res, heap |-> h]

Vector(space, parts) == [type |-> "CompositeVector", space |-> space, parts |-> parts]

(***************************************************************************)
(* ProductSpace.Vector and the element operations of ProductSpace          *)
(***************************************************************************)
ProductVectorInit(h, space, args) ==
    IF Len(args) = 0 THEN Built(Raise("IndexError"), h)
    ELSE IF ~IsVector(args[1])
    THEN \* delegate constructors, one per pair of zip(args, space.spaces)
         LET n == Min(Len(args), Len(space.spaces))
             h2 == h \o [i \in 1..n |-> Cell(space.spaces[i], args[i].val)]
         IN Built(Ok(Vector(space, [i \in 1..n |-> Len(h) + i])), h2)
    ELSE IF \E i \in 1..Min(Len(args), Len(space.spaces)) :
                h[args[i].cell].space # space.spaces[i]
    THEN Built(Raise("TypeError"), h)
    ELSE Built(Ok(Vector(space, [i \in 1..Len(args) |-> args[i].cell])), h)

ProductMakeVector(h, self, args) == ProductVectorInit(h, self, args)

\* vals[i] is what the new element of slot i holds
ProductFresh(h, self, vals) ==
    LET n == Len(self.spaces)
        h2 == h \o [i \in 1..n |-> Cell(self.spaces[i], vals[i])]
    IN ProductMakeVector(h2, self, [i \in 1..n |-> VectorArg(Len(h) + i)])

ProductZero(h, self) == ProductFresh(h, self, [i \in 1..Len(self.spaces) |-> 0])

\* what an empty() element holds is not initialised: vals is arbitrary
ProductEmpty(h, self, vals) == ProductFresh(h, self, vals)

ProductZipLen(self, vs) ==
    LET lens == {Len(self.spaces)} \cup {Len(vs[k].parts) : k \in 1..Len(vs)}
    IN CHOOSE n \in lens : \A m \in lens : n <= m

ProductInnerCalls(self, x, y) ==
    [i \in 1..ProductZipLen(self, <<x, y>>) |->
        SubCall(self.spaces[i], "innerImpl", <<x.parts[i], y.parts[i]>>)]

ProductInnerImpl(h, self, x, y) ==
    LET cs == ProductInnerCalls(self, x, y)
    IN Sum([i \in 1..Len(cs) |-> LeafInnerImpl(h, cs[i].args[1], cs[i].args[2])])

ProductLinCombCalls(self, z, a, x, b, y) ==
    [i \in 1..ProductZipLen(self, <<z, x, y>>) |->
        SubCall(self.spaces[i], "linCombImpl",
                <<z.parts[i], a, x.parts[i], b, y.parts[i]>>)]

RECURSIVE RunLinComb(_, _, _)
RunLinComb(h, cs, i) ==
    IF i > Len(cs) THEN h
    ELSE RunLinComb(LeafLinCombImpl(h, cs[i].args[1], cs[i].args[2],
                        cs[i].args[3], cs[i].args[4], cs[i].args[5]), cs, i + 1)

ProductLinCombImpl(h, self, z, a, x, b, y) ==
    RunLinComb(h, ProductLinCombCalls(self, z, a, x, b, y), 1)

(***************************************************************************)
(* PowerSpace.Vector and the element operations of PowerSpace              *)
(***************************************************************************)
\* PowerVectorInit without the comparison of len(args) with the dimension
PowerVectorInit_NoLengthCheck(h, space, args) ==
    IF Len(args) = 0 THEN Built(Raise("IndexError"), h)
    ELSE IF ~IsVector(args[1])
    THEN IF "spaces" \notin DOMAIN space THEN Built(Raise("AttributeError"), h)
         ELSE LET n == Min(Len(args), Len(space.spaces))
                  h2 == h \o [i \in 1..n |-> Cell(space.spaces[i], args[i].val)]
              IN Built(Ok(Vector(space, [i \in 1..n |-> Len(h) + i])), h2)
    ELSE IF \E i \in 1..Len(args) : h[args[i].cell].space # space.underlying_space
    THEN Built(Raise("TypeError"), h)
    ELSE Built(Ok(Vector(space, [i \in 1..Len(args) |-> args[i].cell])), h)

PowerVectorInit(h, space, args) ==
    IF Len(args) = 0 THEN Built(Raise("IndexError"), h)
    ELSE IF ~IsVector(args[1])
    THEN \* delegate constructors: zip(args, space.spaces)
         IF "spaces" \notin DOMAIN space THEN Built(Raise("AttributeError"), h)
         ELSE LET n == Min(Len(args), Len(space.spaces))
                  h2 == h \o [i \in 1..n |-> Cell(space.spaces[i], args[i].val)]
              IN Built(Ok(Vector(space, [i \in 1..n |-> Len(h) + i])), h2)
    ELSE IF Len(args) # PowerDimension(space) THEN Built(Raise("TypeError"), h)
    ELSE IF \E i \in 1..Len(args) : h[args[i].cell].space # space.underlying_space
    THEN Built(Raise("TypeError"), h)
    ELSE Built(Ok(Vector(space, [i \in 1..Len(args) |-> args[i].cell])), h)

PowerMakeVector(h, self, args) == PowerVectorInit(h, self, args)

PowerFresh(h, self, vals) ==
    LET n == PowerDimension(self)
        h2 == h \o [i \in 1..n |-> Cell(self.underlying_space, vals[i])]
    IN PowerMakeVector(h2, self, [i \in 1..n |-> VectorArg(Len(h) + i)])

PowerZero(h, self) == PowerFresh(h, self, [i \in 1..PowerDimension(self) |-> 0])

PowerEmpty(h, self, vals) == PowerFresh(h, self, vals)

PowerZipLen(vs) ==
    LET lens == {Len(vs[k].parts) : k \in 1..Len(vs)}
    IN CHOOSE n \in lens : \A m \in lens : n <= m

\* PowerInnerCalls pairing every part of x with the first part of y
PowerInnerCalls_FirstPartOfY(self, x, y) ==
    [i \in 1..PowerZipLen(<<x, y>>) |->
        SubCall(self.underlying_space, "innerImpl", <<x.parts[i], y.parts[1]>>)]

PowerInnerCalls(self, x, y) ==
    [i \in 1..PowerZipLen(<<x, y>>) |->
        SubCall(self.underlying_space, "innerImpl", <<x.parts[i], y.parts[i]>>)]

PowerInnerImpl(h, self, x, y) ==
    LET cs == PowerInnerCalls(self, x, y)
    IN Sum([i \in 1..Len(cs) |-> LeafInnerImpl(h, cs[i].args[1], cs[i].args[2])])

PowerLinCombCalls(self, z, a, x, b, y) ==
    [i \in 1..PowerZipLen(<<z, x, y>>) |->
        SubCall(self.underlying_space, "linCombImpl",
                <<z.parts[i], a, x.parts[i], b, y.parts[i]>>)]

PowerLinCombImpl(h, self, z, a, x, b, y) ==
    RunLinComb(h, PowerLinCombCalls(self, z, a, x, b, y), 1)

(***************************************************************************)
(* Dispatch on the class of self.                                          *)
(***************************************************************************)
IsProduct(o) == o.type = "ProductSpace"
IsPower(o) == o.type = "PowerSpace"

Field(self) == IF IsProduct(self) THEN ProductField(self) ELSE PowerField(self)
Dimension(self) ==
    IF IsProduct(self) THEN ProductDimension(self) ELSE PowerDimension(self)
Equals(self, other) ==
    IF IsProduct(self) THEN ProductEquals(self, other)
    ELSE PowerEquals(self, other)
GetItem(self, index) ==
    IF IsProduct(self) THEN ProductGetItem(self, index)
    ELSE PowerGetItem(self, index)
SpaceLen(self) == IF IsProduct(self) THEN ProductLen(self) ELSE PowerLen(self)
MakeVector(h, self, args) ==
    IF IsProduct(self) THEN ProductMakeVector(h, self, args)
    ELSE PowerMakeVector(h, self, args)
Zero(h, self) == IF IsProduct(self) THEN ProductZero(h, self) ELSE PowerZero(h, self)
Empty(h, self, vals) ==
    IF IsProduct(self) THEN ProductEmpty(h, self, vals)
    ELSE PowerEmpty(h, self, vals)
InnerCalls(self, x, y) ==
    IF IsProduct(self) THEN ProductInnerCalls(self, x, y)
    ELSE PowerInnerCalls(self, x, y)
InnerImpl(h, self, x, y) ==
    IF IsProduct(self) THEN ProductInnerImpl(h, self, x, y)
    ELSE PowerInnerImpl(h, self, x, y)
LinCombCalls(self, z, a, x, b, y) ==
    IF IsProduct(self) THEN ProductLinCombCalls(self, z, a, x, b, y)
    ELSE PowerLinCombCalls(self, z, a, x, b, y)
LinCombImpl(h, self, z, a, x, b, y) ==
    IF IsProduct(self) THEN ProductLinCombImpl(h, self, z, a, x, b, y)
    ELSE PowerLinCombImpl(h, self, z, a, x, b, y)

\* the sub-space of slot i (1-based) of a composite space
SubSpace(self, i) ==
    IF IsProduct(self) THEN self.spaces[i] ELSE self.underlying_space

(***************************************************************************)
(* Space-level calls.                                                      *)
(***************************************************************************)
Call(op, self, args, res) == [op |-> op, self |-> self, args |-> args, res |-> res]

Keep(r) ==
    IF r.ok
    THEN /\ (r.val \in spaces \/ Cardinality(spaces) < MaxSpaces)
         /\ spaces' = spaces \cup {r.val}
    ELSE spaces' = spaces

NewProductSpace ==
    \E sp \in SeqsUpTo(LeafSpaces, MaxDim) :
        LET r == ProductSpaceInit(sp) IN
        /\ Keep(r)
        /\ last' = Call("ProductSpace", NoneObj, sp, r)
        /\ UNCHANGED <<heap, vecs, calls>>

NewPowerSpace ==
    \E u \in LeafSpaces, d \in -1..MaxDim :
        LET r == PowerSpaceInit(u, d) IN
        /\ Keep(r)
        /\ last' = Call("PowerSpace", NoneObj, <<u, d>>, r)
        /\ UNCHANGED <<heap, vecs, calls>>

CallEquals ==
    \E p \in spaces, o \in spaces \cup LeafSpaces \cup {NoneObj} :
        /\ last' = Call("equals", p, <<o>>, Ok(Equals(p, o)))
        /\ UNCHANGED <<spaces, heap, vecs, calls>>

CallGetItem ==
    \E p \in spaces, i \in -(MaxDim + 1)..(MaxDim + 1) :
        /\ last' = Call("getitem", p, <<i>>, GetItem(p, i))
        /\ UNCHANGED <<spaces, heap, vecs, calls>>

CallLen ==
    \E p \in spaces :
        /\ last' = Call("len", p, <<>>, Ok(SpaceLen(p)))
        /\ UNCHANGED <<spaces, heap, vecs, calls>>

NoCall == Call("none", NoneObj, <<>>, Ok(<<>>))

InitSpace ==
    /\ spaces = {}
    /\ heap = <<>>
    /\ vecs = {}
    /\ last = NoCall
    /\ calls = <<>>

NextSpace ==
    \/ NewProductSpace
    \/ NewPowerSpace
    \/ CallEquals
    \/ CallGetItem
    \/ CallLen

SpecSpace == InitSpace /\ [][NextSpace]_vars

(***************************************************************************)
(* Element-level calls on one composite space.                             *)
(***************************************************************************)
\* the leaf spaces elements are made of: the real ones
ElemLeaves == {s \in LeafSpaces : s.field = "Real"}
RawVals == 0..1
Scalars == 0..1
Vals == -MaxVal..MaxVal

InRange(h) == \A c \in 1..Len(h) : h[c].val \in Vals

ArgTuples(h) ==
    UNION {[1..k -> {RawArg(v) : v \in RawVals}] : k \in 0..(MaxDim + 1)}
    \cup UNION {[1..k -> {VectorArg(c) : c \in 1..Len(h)}] : k \in 1..(MaxDim + 1)}

KeepVector(b) ==
    /\ Len(b.heap) <= MaxCells
    /\ heap' = b.heap
    /\ IF b.res.ok
       THEN /\ (b.res.val \in vecs \/ Cardinality(vecs) < MaxVecs)
            /\ vecs' = vecs \cup {b.res.val}
       ELSE vecs' = vecs

\* a leaf space makes one of its own elements
NewLeafElement ==
    \E s \in ElemLeaves, v \in RawVals :
        /\ Len(heap) < MaxCells
        /\ heap' = LeafMakeVector(heap, s, v)
        /\ last' = Call("leafMakeVector", s, <<v>>, Ok(Len(heap) + 1))
        /\ calls' = <<>>
        /\ UNCHANGED <<spaces, vecs>>

CallMakeVector ==
    \E p \in spaces, args \in ArgTuples(heap) :
        LET b == MakeVector(heap, p, args) IN
        /\ KeepVector(b)
        /\ last' = Call("makeVector", p, args, b.res)
        /\ calls' = <<>>
        /\ UNCHANGED spaces

CallZero ==
    \E p \in spaces :
        LET b == Zero(heap, p) IN
        /\ KeepVector(b)
        /\ last' = Call("zero", p, <<>>, b.res)
        /\ calls' = <<>>
        /\ UNCHANGED spaces

CallEmpty ==
    \E p \in spaces : \E vals \in [1..Dimension(p) -> RawVals] :
        LET b == Empty(heap, p, vals) IN
        /\ KeepVector(b)
        /\ last' = Call("empty", p, <<>>, b.res)
        /\ calls' = <<>>
        /\ UNCHANGED spaces

CallInnerImpl ==
    \E x \in vecs, y \in vecs :
        /\ last' = Call("innerImpl", x.space, <<x, y>>,
                        Ok(InnerImpl(heap, x.space, x, y)))
        /\ calls' = InnerCalls(x.space, x, y)
        /\ UNCHANGED <<spaces, heap, vecs>>

CallLinCombImpl ==
    \E z \in vecs, x \in vecs, y \in vecs, a \in Scalars, b \in Scalars :
        LET h2 == LinCombImpl(heap, z.space, z, a, x, b, y) IN
        /\ InRange(h2)
        /\ heap' = h2
        /\ last' = Call("linCombImpl", z.space, <<z, a, x, b, y>>, Ok(NoneObj))
        /\ calls' = LinCombCalls(z.space, z, a, x, b, y)
        /\ UNCHANGED <<spaces, vecs>>

\* the composite spaces a constructor returns
Constructed ==
    {r.val : r \in {q \in {ProductSpaceInit(sp) : sp \in SeqsUpTo(LeafSpaces, MaxDim)}
                          \cup {PowerSpaceInit(u, d) : u \in LeafSpaces, d \in -1..MaxDim} :
                    q.ok}}

\* those over the leaf spaces elements are made of
ElemSpaces ==
    {p \in Constructed : \A i \in 1..Dimension(p) : SubSpace(p, i) \in ElemLeaves}

InitElem ==
    /\ \E p \in ElemSpaces : spaces = {p}
    /\ heap = <<>>
    /\ vecs = {}
    /\ last = NoCall
    /\ calls = <<>>

NextElem ==
    \/ NewLeafElement
    \/ CallMakeVector
    \/ CallZero
    \/ CallEmpty
    \/ CallInnerImpl
    \/ CallLinCombImpl

SpecElem == InitElem /\ [][NextElem]_vars

(***************************************************************************)
(* Claims about the spaces, under SpecSpace.                               *)
(***************************************************************************)
FieldsDiffer(sp) == \E i \in 1..Len(sp), j \in 1..Len(sp) : sp[i].field # sp[j].field

\* C1: P.equals(other) is true iff other is a ProductSpace with the same
\* number of sub-spaces as P and spaces[i].equals(other.spaces[i]) for every
\* index i; ProductSpaces with different sub-space counts are never equal.
C1_EqualsIffSameCountAndPairwise ==
    (last.op = "equals" /\ IsProduct(last.self)) =>
        LET o == last.args[1] IN
        last.res.val <=>
            /\ IsProduct(o)
            /\ Len(o.spaces) = Len(last.self.spaces)
            /\ \A i \in 1..Len(o.spaces) : LeafEquals(last.self.spaces[i], o.spaces[i])

\* what C3 says of a construction, with the exception it fails with as err
ConstructionOutcome(err) ==
    /\ last.op = "ProductSpace" =>
          /\ ~last.res.ok <=> (Len(last.args) = 0 \/ FieldsDiffer(last.args))
          /\ ~last.res.ok => last.res.err = err
          /\ last.res.ok =>
                /\ Field(last.res.val) = last.args[1].field
                /\ Dimension(last.res.val) = Len(last.args)
                /\ SpaceLen(last.res.val) = Len(last.args)
                /\ last.res.val.spaces = last.args
    /\ last.op = "PowerSpace" =>
          /\ ~last.res.ok <=> last.args[2] <= 0
          /\ ~last.res.ok => last.res.err = err
          /\ last.res.ok =>
                /\ Dimension(last.res.val) = last.args[2]
                /\ last.res.val.underlying_space = last.args[1]

\* C3 as stated: construction fails with ConfigurationError exactly when a
\* ProductSpace is given no spaces or spaces of different fields, or a
\* PowerSpace a dimension <= 0; otherwise it succeeds with
\* field = spaces[0].field and dimension = len(spaces) = len(space).
C3_FailsWithConfigurationError == ConstructionOutcome("ConfigurationError")

\* C3 amended: the same, the exception raised being TypeError.
C3_FailsWithTypeError == ConstructionOutcome("TypeError")

C3_Witness ==
    /\ last.op = "ProductSpace"
    /\ Len(last.args) = 2
    /\ FieldsDiffer(last.args)
    /\ last.res = Raise("TypeError")

\* C8: P[i] returns P.underlying_space when -N <= i < N and fails with an
\* index-out-of-range error otherwise; indexing never changes P.
C8_PowerIndexing ==
    /\ [](
        (last.op = "getitem" /\ IsPower(last.self)) =>
            LET n == Dimension(last.self)
                i == last.args[1]
            IN IF -n <= i /\ i < n
               THEN last.res = Ok(last.self.underlying_space)
               ELSE last.res = Raise("IndexError"))
    /\ [][last'.op = "getitem" => (last'.self \in spaces /\ UNCHANGED <<spaces, heap, vecs>>)]_vars

C8_Witness ==
    /\ last.op = "getitem"
    /\ IsPower(last.self)
    /\ Dimension(last.self) = 2
    /\ last.args[1] = -2
    /\ last.res = Ok(last.self.underlying_space)

(***************************************************************************)
(* Claims about the elements, under SpecElem.                              *)
(***************************************************************************)
Constructs == last.op \in {"makeVector", "zero", "empty"}
DelegateCall == last.op = "makeVector" /\ Len(last.args) > 0 /\ ~IsVector(last.args[1])
WrapCall == last.op = "makeVector" /\ Len(last.args) > 0 /\ IsVector(last.args[1])
PartSpace(a) == heap[a.cell].space

\* C2: every composite element that is successfully constructed satisfies
\* len(parts) = space.dimension and parts[i].space is the sub-space of slot i.
C2_ElementInvariant ==
    (Constructs /\ last.res.ok) =>
        LET v == last.res.val IN
        /\ Len(v.parts) = Dimension(v.space)
        /\ \A i \in 1..Len(v.parts) : heap[v.parts[i]].space = SubSpace(v.space, i)

\* the wrap-mode arguments C4 says are refused
Refused(p, args) ==
    IF IsProduct(p)
    THEN \E i \in 1..Min(Len(args), Dimension(p)) : PartSpace(args[i]) # SubSpace(p, i)
    ELSE \/ Len(args) # Dimension(p)
         \/ \E i \in 1..Len(args) : PartSpace(args[i]) # p.underlying_space

\* C4: wrap-mode construction fails with TypeError, returning no element,
\* whenever (ProductSpace) some args[i].space differs from spaces[i] or
\* (PowerSpace) len(args) # dimension or some part's space differs from
\* underlying_space; otherwise the given parts are stored as they are, no
\* copy being made.
C4_WrapValidation ==
    /\ [](WrapCall =>
            IF Refused(last.self, last.args)
            THEN last.res = Raise("TypeError")
            ELSE last.res = Ok(Vector(last.self,
                                 [i \in 1..Len(last.args) |-> last.args[i].cell])))
    /\ [][(last'.op = "makeVector" /\ Len(last'.args) > 0 /\ IsVector(last'.args[1])) =>
            /\ heap' = heap
            /\ ~last'.res.ok => vecs' = vecs
            /\ last'.res.ok => vecs' = vecs \cup {last'.res.val}]_vars

C4_Witness ==
    /\ WrapCall
    /\ IsPower(last.self)
    /\ Dimension(last.self) = 2
    /\ Len(last.args) = 1
    /\ PartSpace(last.args[1]) = last.self.underlying_space
    /\ last.res = Raise("TypeError")

\* C5: innerImpl(x, y) on a composite space of dimension N is the sum over
\* i = 0..N-1 of sub-space i's innerImpl(x.parts[i], y.parts[i]), evaluated
\* and accumulated in index order, each slot contributing exactly once.
C5_InnerSumsEverySlot ==
    last.op = "innerImpl" =>
        LET p == last.self
            x == last.args[1]
            y == last.args[2]
        IN /\ Len(calls) = Dimension(p)
           /\ \A i \in 1..Len(calls) :
                 calls[i] = SubCall(SubSpace(p, i), "innerImpl", <<x.parts[i], y.parts[i]>>)
           /\ last.res.val = Sum([i \in 1..Len(calls) |->
                                    LeafInnerImpl(heap, x.parts[i], y.parts[i])])

Range(f) == {f[i] : i \in DOMAIN f}

\* C6: linCombImpl(z, a, x, b, y) delegates exactly once per slot i in
\* 0..N-1 to sub-space i's linCombImpl(z.parts[i], a, x.parts[i], b, y.parts[i])
\* and changes nothing else; no other operation changes the value of an
\* existing element.
C6_LinCombFrame ==
    [][/\ last'.op = "linCombImpl" =>
            LET p == last'.self
                z == last'.args[1]
                a == last'.args[2]
                x == last'.args[3]
                b == last'.args[4]
                y == last'.args[5]
            IN /\ Len(calls') = Dimension(p)
               /\ \A i \in 1..Len(calls') :
                     calls'[i] = SubCall(SubSpace(p, i), "linCombImpl",
                                   <<z.parts[i], a, x.parts[i], b, y.parts[i]>>)
               /\ Len(heap') = Len(heap)
               /\ \A c \in 1..Len(heap) :
                     /\ heap'[c].space = heap[c].space
                     /\ c \notin Range(z.parts) => heap'[c] = heap[c]
               /\ UNCHANGED <<spaces, vecs>>
       /\ last'.op # "linCombImpl" =>
            /\ Len(heap') >= Len(heap)
            /\ \A c \in 1..Len(heap) : heap'[c] = heap[c]]_vars

\* z after a fresh element holding a*x.parts[i] + b*y.parts[i] for the first
\* n slots, computed from the values in h, is copied into it slot by slot
RECURSIVE CopyFrom(_, _, _, _)
CopyFrom(h, parts, vals, i) ==
    IF i > Len(vals) THEN h
    ELSE CopyFrom([h EXCEPT ![parts[i]].val = vals[i]], parts, vals, i + 1)
FreshThenCopy(h, z, a, x, b, y, n) ==
    CopyFrom(h, z.parts,
             [i \in 1..n |-> a * h[x.parts[i]].val + b * h[y.parts[i]].val], 1)

\* C7: whatever z shares with x or y, linCombImpl(z, a, x, b, y) leaves each
\* z.parts[i] with the value a*x.parts[i] + b*y.parts[i] computed from the
\* values held before the call: the result of computing into a fresh
\* element and then copying it into z.
C7_LinCombAliasing ==
    [][last'.op = "linCombImpl" =>
            heap' = FreshThenCopy(heap, last'.args[1], last'.args[2], last'.args[3],
                                  last'.args[4], last'.args[5], Len(calls'))]_vars

\* C9: delegate-mode construction with N raw values on a composite space of
\* dimension N forwards value i to sub-space i's element constructor and
\* yields an element whose i-th part is that result, for PowerSpace as for
\* ProductSpace.
C9_DelegateForwards ==
    (DelegateCall /\ Len(last.args) = Dimension(last.self)) =>
        /\ last.res.ok
        /\ Len(last.res.val.parts) = Len(last.args)
        /\ \A i \in 1..Len(last.args) :
              heap[last.res.val.parts[i]] = Cell(SubSpace(last.self, i), last.args[i].val)

\* ProductSpace(S, ..., S) with as many copies of S as PowerSpace p has slots
Twin(p) == ProductSpaceInit([i \in 1..Dimension(p) |-> p.underlying_space]).val
\* the element of Twin(v.space) wrapping the parts of v
AsTwin(v) == Vector(Twin(v.space), v.parts)

PowerSpaces == {p \in Constructed : IsPower(p)}

\* C10: PowerSpace(S, N) and ProductSpace(S, ..., S) agree on field,
\* dimension, the parts of zero(), innerImpl and linCombImpl of elements
\* wrapping the same parts, yet equals between them is false both ways;
\* PowerSpace.equals on PowerSpaces is reflexive, symmetric and transitive.
C10_PowerAgreesWithProduct ==
    /\ [](/\ \A p \in spaces : IsPower(p) =>
                /\ Field(Twin(p)) = Field(p)
                /\ Dimension(Twin(p)) = Dimension(p)
                /\ SpaceLen(Twin(p)) = SpaceLen(p)
                /\ ~Equals(p, Twin(p))
                /\ ~Equals(Twin(p), p)
          /\ \A v \in vecs : IsPower(v.space) =>
                ProductMakeVector(heap, Twin(v.space),
                    [i \in 1..Len(v.parts) |-> VectorArg(v.parts[i])]).res = Ok(AsTwin(v))
          /\ (last.op = "innerImpl" /\ IsPower(last.self)) =>
                last.res.val = ProductInnerImpl(heap, Twin(last.self),
                                   AsTwin(last.args[1]), AsTwin(last.args[2]))
          /\ \A p \in PowerSpaces, q \in PowerSpaces, r \in PowerSpaces :
                /\ PowerEquals(p, p)
                /\ PowerEquals(p, q) => PowerEquals(q, p)
                /\ (PowerEquals(p, q) /\ PowerEquals(q, r)) => PowerEquals(p, r))
    /\ [][/\ (last'.op = "linCombImpl" /\ IsPower(last'.self)) =>
                heap' = ProductLinCombImpl(heap, Twin(last'.self),
                            AsTwin(last'.args[1]), last'.args[2], AsTwin(last'.args[3]),
                            last'.args[4], AsTwin(last'.args[5]))
          /\ (last'.op = "zero" /\ IsPower(last'.self)) =>
                LET b == ProductZero(heap, Twin(last'.self)) IN
                /\ b.heap = heap'
                /\ b.res.ok /\ last'.res.ok
                /\ b.res.val.parts = last'.res.val.parts]_vars

C10_Witness ==
    /\ last.op = "linCombImpl"
    /\ IsPower(last.self)
    /\ Dimension(last.self) = 2
    /\ last.args[1].parts # last.args[3].parts
    /\ last.args[2] = 1
    /\ heap[last.args[1].parts[1]].val = 1

====
